---------------------------- MODULE Spec2Model ----------------------------
(***************************************************************************)
(* Model of src/app.py: a Streamlit dashboard over vehicles.csv.           *)
(*                                                                         *)
(* Every user interaction reruns the whole script: df = load_data() (a     *)
(* function cached by st.cache_data) followed by the branch of the page    *)
(* selected in the sidebar.  One action of the model is one such run.      *)
(*                                                                         *)
(* A cell of the table is <<>> (NaN / None) or <<v>> (the value v).        *)
(* A model name and the search text are sequences of one-character         *)
(* strings; every other string value is a TLA+ string.                     *)
(***************************************************************************)
EXTENDS Integers, Sequences, FiniteSets

VARIABLES
    file,            \* vehicles.csv on disk: [readable, cols, rows]
    cache,           \* the st.cache_data entry of load_data
    reads,           \* number of pd.read_csv calls made so far
    started,         \* the script has run at least once in the session
    page,            \* the sidebar radio's value
    selected_brand,  \* the selectbox value of the current page (a cell)
    search_query,    \* the lower-cased text of the search box
    df,              \* the script's global df in the last run
    errorShown,      \* st.error of load_data is on the rendered page
    out              \* what the last run rendered

vars == <<file, cache, reads, started, page, selected_brand, search_query,
          df, errorShown, out>>

-----------------------------------------------------------------------------
(* Bounds of the explored inputs *)

MaxRows == 2
MaxModeRows == 3
MaxYearRows == 3
MaxSearchRows == 1
MaxNameLen == 2
MaxSearchLen == 2
MaxBrands == 11
MaxExtra == 1
MaxHeatRows == 3

-----------------------------------------------------------------------------
(* Cells, columns, data frames *)

NaN == <<>>

Val(v) == <<v>>

isnull(c) == c = NaN

Columns ==
    {"manufacturer", "model", "year", "price", "lat", "long", "cylinders",
     "fuel", "drive", "type", "transmission"}

\* pd.DataFrame(): no columns, no rows
EmptyDataFrame == [cols |-> {}, rows |-> <<>>]

\* DataFrame.empty: some axis has length 0
empty(d) == d.cols = {} \/ d.rows = <<>>

Range(s) == {s[i] : i \in 1..Len(s)}

\* a function on 1..n as a sequence, the empty one as <<>>
AsSeq(f) == IF DOMAIN f = {} THEN <<>> ELSE f

RECURSIVE Sum(_)
Sum(s) == IF s = <<>> THEN 0 ELSE Head(s) + Sum(Tail(s))

\* the cells of column c, in row order
Column(rows, c) == AsSeq([i \in 1..Len(rows) |-> rows[i][c]])

\* Series.dropna()
dropna_cells(cells) == SelectSeq(cells, LAMBDA c : ~isnull(c))

\* the values of a sequence of non-null cells
Values(cells) == AsSeq([i \in 1..Len(cells) |-> cells[i][1]])

\* Series.nunique(): number of distinct non-null values
nunique(cells) == Cardinality(Range(dropna_cells(cells)))

-----------------------------------------------------------------------------
(* Orders: Python compares str by code point *)

\* every categorical string of the model, in Python's sorted() order
SortedStrings ==
    <<"4wd", "6", "8", "acura", "audi", "auto", "bmw", "buick", "chevrolet",
      "dodge", "fiat", "ford", "fwd", "gas", "gmc", "honda", "jeep", "kia",
      "lexus", "manual", "mazda", "nissan", "rwd", "sedan", "suv", "toyota">>

StrRank(s) == CHOOSE i \in 1..Len(SortedStrings) : SortedStrings[i] = s

StrLess(a, b) == StrRank(a) < StrRank(b)

\* sorted(S) for a set of strings
SortStrings(S) == SelectSeq(SortedStrings, LAMBDA x : x \in S)

\* code points of the characters used in model names and search texts
CharCode ==
    [c \in {"(", ".", "A", "B", "a", "b"} |->
        CASE c = "(" -> 40 [] c = "." -> 46 [] c = "A" -> 65
          [] c = "B" -> 66 [] c = "a" -> 97 [] c = "b" -> 98]

RECURSIVE NameLess(_, _)
NameLess(a, b) ==
    IF b = <<>> THEN FALSE
    ELSE IF a = <<>> THEN TRUE
    ELSE IF CharCode[Head(a)] # CharCode[Head(b)]
         THEN CharCode[Head(a)] < CharCode[Head(b)]
         ELSE NameLess(Tail(a), Tail(b))

\* the sorted group keys of groupby('model')
RECURSIVE SortNames(_)
SortNames(S) ==
    IF S = {} THEN <<>>
    ELSE LET m == CHOOSE x \in S : \A y \in S : ~NameLess(y, x)
         IN  <<m>> \o SortNames(S \ {m})

\* str.lower() of one character
LowerChar(c) == CASE c = "A" -> "a" [] c = "B" -> "b" [] OTHER -> c

\* str.lower()
lower(s) == AsSeq([i \in 1..Len(s) |-> LowerChar(s[i])])

-----------------------------------------------------------------------------
(* load_data *)

\* the subset of dropna without 'price'
RequiredColumns_NoPrice ==
    {"manufacturer", "model", "year", "lat", "long", "cylinders", "fuel",
     "drive"}

RequiredColumns ==
    {"manufacturer", "model", "year", "price", "lat", "long", "cylinders",
     "fuel", "drive"}

\* df.dropna(subset=...) on the rows: keep the rows with no NaN in subset
dropna(rows, subset) ==
    SelectSeq(rows, LAMBDA r : \A c \in subset : ~isnull(r[c]))

\* load_data with the except clause narrowed to the read: the KeyError of
\* dropna on a missing column escapes
LoadDataBody_KeyErrorEscapes(f) ==
    IF ~f.readable
    THEN [df |-> EmptyDataFrame, error |-> TRUE, raised |-> FALSE]
    ELSE IF ~(RequiredColumns \subseteq f.cols)
    THEN [df |-> EmptyDataFrame, error |-> FALSE, raised |-> TRUE]
    ELSE [df |-> [cols |-> f.cols, rows |-> dropna(f.rows, RequiredColumns)],
          error |-> FALSE, raised |-> FALSE]

\* The body of load_data.  read_csv raises on an unreadable file and dropna
\* raises KeyError on a missing subset column; both are caught by
\* "except Exception", which shows st.error and substitutes pd.DataFrame().
LoadDataBody(f) ==
    IF ~f.readable \/ ~(RequiredColumns \subseteq f.cols)
    THEN [df |-> EmptyDataFrame, error |-> TRUE, raised |-> FALSE]
    ELSE [df |-> [cols |-> f.cols, rows |-> dropna(f.rows, RequiredColumns)],
          error |-> FALSE, raised |-> FALSE]

\* load_data without the decorator: the body runs on every call
CallLoadData_NoCache(c, f) ==
    [ret |-> LoadDataBody(f), cache |-> c, read |-> 1]

\* @st.cache_data: the first call runs the body and stores its return value
\* together with the st.error element it showed; a later call returns the
\* stored value and replays the element.  A raised exception stores nothing.
CallLoadData(c, f) ==
    IF c.filled
    THEN [ret |-> c.value, cache |-> c, read |-> 0]
    ELSE LET r == LoadDataBody(f)
         IN  [ret |-> r,
              cache |-> IF r.raised THEN c ELSE [filled |-> TRUE, value |-> r],
              read |-> 1]

-----------------------------------------------------------------------------
(* What a run renders *)

Pages ==
    <<"Home", "Models by Company", "Most Listed Vehicle Brands",
      "Transmission vs Type", "Manufacturer vs Drive",
      "Brand-Specific Heatmap">>

NoOutput == [kind |-> "none", msg |-> "", rows |-> <<>>, data |-> <<>>]

\* an exception that leaves the script
Fault(e) == [kind |-> "fault", msg |-> e, rows |-> <<>>, data |-> <<>>]

\* st.warning(m)
Warning(m) == [kind |-> "warning", msg |-> m, rows |-> <<>>, data |-> <<>>]

\* a page rendered from the rows `rows` with the derived data `data`
Rendered(rows, data) == [kind |-> "page", msg |-> "", rows |-> rows, data |-> data]

-----------------------------------------------------------------------------
(* Home *)

HomePage(d) ==
    IF "manufacturer" \notin d.cols THEN Fault("KeyError: 'manufacturer'")
    ELSE IF "model" \notin d.cols THEN Fault("KeyError: 'model'")
    ELSE Rendered(d.rows,
             [total |-> Len(d.rows),
              brands |-> nunique(Column(d.rows, "manufacturer")),
              models |-> nunique(Column(d.rows, "model"))])

-----------------------------------------------------------------------------
(* Widgets shared by Models by Company and Brand-Specific Heatmap *)

\* the distinct values of a sequence, in order of first appearance
RECURSIVE FirstSeen(_)
FirstSeen(s) ==
    IF s = <<>> THEN <<>>
    ELSE LET init == FirstSeen(SubSeq(s, 1, Len(s) - 1))
             x == s[Len(s)]
         IN  IF x \in Range(init) THEN init ELSE Append(init, x)

\* sorted(df['manufacturer'].dropna().unique()): the selectbox options
BrandOptions(d) ==
    SortStrings(Range(Values(dropna_cells(Column(d.rows, "manufacturer")))))

\* st.selectbox: the option the user chose, else the first option; None
\* when there are no options
SelectBox(options, choice) ==
    IF options = <<>> THEN NaN
    ELSE IF choice # NaN /\ choice[1] \in Range(options) THEN choice
    ELSE Val(options[1])

\* df[df['manufacturer'] == selected_brand]
FilterBrand(rows, brand) ==
    SelectSeq(rows, LAMBDA r : brand # NaN /\ r["manufacturer"] = brand)

-----------------------------------------------------------------------------
(* Models by Company *)

ModelsColumns ==
    {"manufacturer", "model", "price", "drive", "type", "transmission",
     "year", "fuel", "cylinders"}

\* re.compile(pat): over the characters of CharCode the only pattern that
\* does not compile is one with "(", an unterminated group
RegexCompiles(pat) == \A i \in 1..Len(pat) : pat[i] # "("

\* re.search(pat, s) for a compiled pattern over the characters of
\* CharCode: "." matches any character, every other character itself
RegexSearch(pat, s) ==
    \E off \in 0..(Len(s) - Len(pat)) :
        \A i \in 1..Len(pat) : pat[i] = "." \/ pat[i] = s[off + i]

\* Series.mode() returning its modes in order of first appearance
mode_FirstSeen(cells) ==
    LET vals == Values(dropna_cells(cells))
        Count(v) == Cardinality({i \in 1..Len(vals) : vals[i] = v})
        modes == {v \in Range(vals) : \A w \in Range(vals) : Count(w) <= Count(v)}
    IN  SelectSeq(FirstSeen(vals), LAMBDA v : v \in modes)

\* Series.mode(): the non-null values of highest frequency, sorted
mode(cells) ==
    LET vals == Values(dropna_cells(cells))
        Count(v) == Cardinality({i \in 1..Len(vals) : vals[i] = v})
        modes == {v \in Range(vals) : \A w \in Range(vals) : Count(w) <= Count(v)}
    IN  SortStrings(modes)

\* lambda x: x.mode().iat[0] if not x.mode().empty else 'N/A'
ModeOrNA(cells) == IF mode(cells) = <<>> THEN "N/A" ELSE mode(cells)[1]

\* a float that is a ratio of integers, den > 0, in lowest terms
RECURSIVE GCD(_, _)
GCD(a, b) == IF b = 0 THEN a ELSE GCD(b, a % b)

Abs(n) == IF n < 0 THEN -n ELSE n

Ratio(n, d) ==
    LET g == GCD(Abs(n), d) IN [num |-> n \div g, den |-> d \div g]

\* Series.mean() of a series with a non-null value
mean(cells) ==
    LET vals == Values(dropna_cells(cells)) IN Ratio(Sum(vals), Len(vals))

RECURSIVE SortInts(_)
SortInts(s) ==
    IF s = <<>> THEN <<>>
    ELSE LET i == CHOOSE i \in 1..Len(s) : \A j \in 1..Len(s) : s[i] <= s[j]
         IN  <<s[i]>> \o SortInts(SubSeq(s, 1, i - 1) \o SubSeq(s, i + 1, Len(s)))

\* Series.median() of a series with a non-null value
median(cells) ==
    LET s == SortInts(Values(dropna_cells(cells)))
        n == Len(s)
    IN  IF n % 2 = 1 THEN Ratio(s[(n + 1) \div 2], 1)
        ELSE Ratio(s[n \div 2] + s[n \div 2 + 1], 2)

\* round-half-up in place of int()
int_RoundHalfUp(q) == (2 * q.num + q.den) \div (2 * q.den)

\* int(x): truncation toward zero
int(q) == IF q.num >= 0 THEN q.num \div q.den ELSE -((-q.num) \div q.den)

\* lambda x: int(x.median()) if not x.isnull().all() else 'N/A'
YearAgg(cells) ==
    IF \A i \in 1..Len(cells) : isnull(cells[i])
    THEN [na |-> TRUE, v |-> 0]
    ELSE [na |-> FALSE, v |-> int(median(cells))]

\* brand_df.groupby('model').agg({...}).reset_index(): one row per model
\* name, the names sorted
grouped(rows) ==
    LET keys == SortNames(Range(Values(dropna_cells(Column(rows, "model")))))
        Group(k) == SelectSeq(rows, LAMBDA r : r["model"] = Val(k))
    IN  AsSeq([i \in 1..Len(keys) |->
            LET g == Group(keys[i])
            IN  [model |-> keys[i],
                 price |-> mean(Column(g, "price")),
                 drive |-> ModeOrNA(Column(g, "drive")),
                 type |-> ModeOrNA(Column(g, "type")),
                 transmission |-> ModeOrNA(Column(g, "transmission")),
                 fuel |-> ModeOrNA(Column(g, "fuel")),
                 cylinders |-> ModeOrNA(Column(g, "cylinders")),
                 year |-> YearAgg(Column(g, "year"))]])

\* the page was entered far enough to show its selectbox (and search box)
ModelsWidgets(d) == ~empty(d) /\ ModelsColumns \subseteq d.cols

ModelsPage(d, brand, query) ==
    IF ~ModelsWidgets(d)
    THEN Warning("Required columns are missing from the dataset.")
    ELSE LET brand_df ==
                 SelectSeq(FilterBrand(d.rows, brand),
                           LAMBDA r : ~isnull(r["model"]))
         IN  IF brand_df = <<>>
             THEN Warning("No models found for this company.")
             ELSE IF query # <<>> /\ ~RegexCompiles(query)
             THEN Fault("re.error")
             ELSE LET kept ==
                          IF query # <<>>
                          THEN SelectSeq(brand_df,
                                   LAMBDA r : RegexSearch(query, lower(r["model"][1])))
                          ELSE brand_df
                  IN  IF kept = <<>>
                      THEN Warning("No matching models found.")
                      ELSE Rendered(kept, grouped(kept))

-----------------------------------------------------------------------------
(* Most Listed Vehicle Brands *)

TopN == 10

\* Series.value_counts() before its sort: (value, count) in order of first
\* appearance
value_counts_unsorted(cells) ==
    LET vals == Values(dropna_cells(cells))
        keys == FirstSeen(vals)
    IN  AsSeq([i \in 1..Len(keys) |->
            [name |-> keys[i],
             count |-> Cardinality({j \in 1..Len(vals) : vals[j] = keys[i]})]])

\* The orders in which an unstable sort may meet equal keys: sort_values
\* uses kind='quicksort', which promises no order among equal counts.  They
\* are represented by the sequence rotated by up to two places, and the
\* reversals of these (every permutation, for up to three entries).
TieOrders(k) ==
    {[rot |-> r, rev |-> b] :
        r \in 0..(IF k = 0 THEN 0 ELSE IF k < 3 THEN k - 1 ELSE 2), b \in BOOLEAN}

Arrange(s, tie) ==
    LET k == Len(s)
        rotated == [i \in 1..k |-> s[((i - 1 + tie.rot) % k) + 1]]
    IN  AsSeq(IF tie.rev THEN [i \in 1..k |-> rotated[k + 1 - i]] ELSE rotated)

RECURSIVE InsertDesc(_, _)
InsertDesc(s, x) ==
    IF s = <<>> THEN <<x>>
    ELSE IF s[Len(s)].count >= x.count THEN Append(s, x)
    ELSE Append(InsertDesc(SubSeq(s, 1, Len(s) - 1), x), s[Len(s)])

RECURSIVE SortDesc(_)
SortDesc(s) ==
    IF s = <<>> THEN <<>>
    ELSE InsertDesc(SortDesc(SubSeq(s, 1, Len(s) - 1)), s[Len(s)])

\* Series.sort_values(ascending=False): descending counts, equal counts in
\* the order the sort left them
sort_values(s, tie) == SortDesc(Arrange(s, tie))

\* nlargest taking the first n entries without regard to their counts
nlargest_Head(s, n, tie) ==
    LET u == Arrange(s, tie) IN SubSeq(u, 1, IF n < Len(u) THEN n ELSE Len(u))

\* Series.nlargest(n) of a value_counts() result: the n first entries of
\* the descending order (keep='first'); all of them, sorted, when n >= len
nlargest(s, n, tie) ==
    LET u == sort_values(s, tie) IN SubSeq(u, 1, IF n < Len(u) THEN n ELSE Len(u))

TopBrandsPage(d, tie) ==
    IF ~empty(d) /\ "manufacturer" \in d.cols
    THEN Rendered(d.rows,
             nlargest(value_counts_unsorted(Column(d.rows, "manufacturer")),
                      TopN, tie))
    ELSE Warning("No data or 'manufacturer' column missing.")

-----------------------------------------------------------------------------
(* Transmission vs Type, Manufacturer vs Drive *)

\* px.histogram / px.bar(df, x=x, color=color): plotly raises ValueError
\* when a named column is not in df
PlotPage(d, x, color) ==
    IF empty(d) THEN Warning("Data not loaded.")
    ELSE IF x \notin d.cols \/ color \notin d.cols THEN Fault("ValueError")
    ELSE Rendered(d.rows,
             AsSeq([i \in 1..Len(d.rows) |-> <<d.rows[i][x], d.rows[i][color]>>]))

-----------------------------------------------------------------------------
(* Brand-Specific Heatmap *)

HeatmapColumns == {"manufacturer", "lat", "long"}

HeatmapWidgets(d) == ~empty(d) /\ HeatmapColumns \subseteq d.cols

\* the map centred on the first row in place of the mean
HeatCenter_FirstRow(brand_df) ==
    <<Ratio(brand_df[1]["lat"][1], 1), Ratio(brand_df[1]["long"][1], 1)>>

\* location=[brand_df['lat'].mean(), brand_df['long'].mean()]
HeatCenter(brand_df) ==
    <<mean(Column(brand_df, "lat")), mean(Column(brand_df, "long"))>>

HeatmapPage(d, brand) ==
    IF ~HeatmapWidgets(d)
    THEN Warning("Required columns ('manufacturer', 'lat', 'long') not found in dataset.")
    ELSE LET brand_df == FilterBrand(d.rows, brand)
         IN  IF brand_df = <<>>
             THEN Warning("No data available for this manufacturer.")
             ELSE Rendered(brand_df,
                      [center |-> HeatCenter(brand_df),
                       heat_data |->
                           AsSeq([i \in 1..Len(brand_df) |->
                               <<brand_df[i]["lat"][1], brand_df[i]["long"][1]>>])])

-----------------------------------------------------------------------------
(* One run of the script *)

\* the page's selectbox is shown in a run over d
HasSelectBox(p, d) ==
    \/ p = "Models by Company" /\ ModelsWidgets(d)
    \/ p = "Brand-Specific Heatmap" /\ HeatmapWidgets(d)

\* the if / elif chain over page
Render(p, d, brand, query, tie) ==
    CASE p = "Home" -> HomePage(d)
      [] p = "Models by Company" -> ModelsPage(d, brand, query)
      [] p = "Most Listed Vehicle Brands" -> TopBrandsPage(d, tie)
      [] p = "Transmission vs Type" -> PlotPage(d, "transmission", "type")
      [] p = "Manufacturer vs Drive" -> PlotPage(d, "manufacturer", "drive")
      [] p = "Brand-Specific Heatmap" -> HeatmapPage(d, brand)

\* The script from top to bottom with the radio at p, the user's selectbox
\* choice `choice` and search text `text`.
RunScript(p, choice, text) ==
    LET call == CallLoadData(cache, file)
        d == call.ret.df
        brand == IF HasSelectBox(p, d) THEN SelectBox(BrandOptions(d), choice) ELSE NaN
        query == IF p = "Models by Company" /\ ModelsWidgets(d) THEN lower(text) ELSE <<>>
        ties == IF p = "Most Listed Vehicle Brands" /\ ~empty(d) /\ "manufacturer" \in d.cols
                THEN TieOrders(Len(value_counts_unsorted(Column(d.rows, "manufacturer"))))
                ELSE {[rot |-> 0, rev |-> FALSE]}
    IN  /\ cache' = call.cache
        /\ reads' = reads + call.read
        /\ started' = TRUE
        /\ page' = p
        /\ UNCHANGED file
        /\ IF call.ret.raised
           THEN /\ df' = df
                /\ errorShown' = FALSE
                /\ selected_brand' = NaN
                /\ search_query' = <<>>
                /\ out' = Fault("load_data raised")
           ELSE /\ df' = d
                /\ errorShown' = call.ret.error
                /\ selected_brand' = brand
                /\ search_query' = query
                /\ \E tie \in ties : out' = Render(p, d, brand, query, tie)

-----------------------------------------------------------------------------
(* Actions *)

\* the session opens: the radio is at its first option
FirstRun ==
    /\ ~started
    /\ RunScript(Pages[1], NaN, <<>>)

\* the user picks another page; its widgets start at their defaults
SelectPage(p) ==
    /\ started
    /\ p # page
    /\ RunScript(p, NaN, <<>>)

\* the user picks a manufacturer in the page's selectbox
SelectBrand ==
    /\ started
    /\ HasSelectBox(page, df)
    /\ \E b \in Range(BrandOptions(df)) :
        /\ Val(b) # selected_brand
        /\ RunScript(page, Val(b), search_query)

\* the user types into the search box of Models by Company
Search(text) ==
    /\ started
    /\ page = "Models by Company"
    /\ ModelsWidgets(df)
    /\ lower(text) # search_query
    /\ RunScript(page, selected_brand, text)

-----------------------------------------------------------------------------
(* The files explored *)

\* all sequences over S of length at most n
Seqs(S, n) == {AsSeq(f) : f \in UNION {[1..k -> S] : k \in 0..n}}

\* vehicles.csv is absent or cannot be parsed
MissingFile == [readable |-> FALSE, cols |-> {}, rows |-> <<>>]

\* vehicles.csv with the columns cols and the given listings
CsvFile(cols, listings) ==
    [readable |-> TRUE, cols |-> cols,
     rows |-> AsSeq([i \in 1..Len(listings) |-> [c \in cols |-> listings[i][c]]])]

BaseListing ==
    [manufacturer |-> Val("ford"), model |-> Val(<<"a">>), year |-> Val(2010),
     price |-> Val(100), lat |-> Val(10), long |-> Val(20),
     cylinders |-> Val("6"), fuel |-> Val("gas"), drive |-> Val("fwd"),
     type |-> Val("suv"), transmission |-> Val("auto")]

KiaListing ==
    [BaseListing EXCEPT !["manufacturer"] = Val("kia"), !["model"] = Val(<<"b">>)]

\* in every set of files: two that fail to load, one with two manufacturers
CommonFiles ==
    {MissingFile,
     CsvFile(Columns \ {"price"}, <<BaseListing>>),
     CsvFile(Columns, <<BaseListing, KiaListing>>)}

\* listings with missing values, in files with missing columns
LoadListings ==
    {[BaseListing EXCEPT !["manufacturer"] = m, !["price"] = p] :
        m \in {NaN, Val("ford"), Val("kia")}, p \in {NaN, Val(100)}}

LoadColumnSets ==
    {Columns, Columns \ {"price"}, Columns \ {"manufacturer"},
     Columns \ {"transmission"}, Columns \ {"type", "transmission"}}

LoadFiles ==
    {MissingFile} \cup
    {CsvFile(cs, ls) : cs \in LoadColumnSets, ls \in Seqs(LoadListings, MaxRows)}

\* listings whose drive and type vary, type possibly missing
ModeListings ==
    {KiaListing} \cup
    {[BaseListing EXCEPT !["model"] = Val(<<n>>), !["drive"] = Val(d), !["type"] = t] :
        n \in {"a", "b"}, d \in {"fwd", "rwd"}, t \in {NaN, Val("suv")}}

ModeFiles ==
    CommonFiles \cup {CsvFile(Columns, ls) : ls \in Seqs(ModeListings, MaxModeRows)}

\* listings whose year and price vary
YearListings ==
    {KiaListing} \cup
    {[BaseListing EXCEPT !["model"] = Val(<<n>>), !["year"] = Val(yp[1]),
                         !["price"] = Val(yp[2])] :
        n \in {"a", "b"}, yp \in {<<2010, 100>>, <<2011, 201>>, <<2012, 100>>}}

YearFiles ==
    CommonFiles \cup {CsvFile(Columns, ls) : ls \in Seqs(YearListings, MaxYearRows)}

\* model names and search texts
NameChars == {"a", "B", "."}

SearchChars == {"a", "A", ".", "("}

ModelNames == Seqs(NameChars, MaxNameLen) \ {<<>>}

SearchTexts == Seqs(SearchChars, MaxSearchLen)

SearchListings == {[BaseListing EXCEPT !["model"] = Val(n)] : n \in ModelNames}

SearchFiles ==
    CommonFiles \cup {CsvFile(Columns, ls) : ls \in Seqs(SearchListings, MaxSearchRows)}

\* manufacturer columns with many distinct brands: the k first brand names
\* in ascending or descending order, then a few more listings of them
BrandNames ==
    <<"acura", "audi", "bmw", "buick", "chevrolet", "dodge", "fiat", "ford",
      "gmc", "honda", "jeep", "kia", "lexus", "mazda", "nissan", "toyota">>

BrandColumns ==
    UNION {
        LET asc == [i \in 1..k |-> BrandNames[i]]
            desc == [i \in 1..k |-> BrandNames[k + 1 - i]]
        IN  {AsSeq(b \o x) : b \in {asc, desc}, x \in Seqs({BrandNames[i] : i \in 1..k}, MaxExtra)}
        : k \in 0..(IF MaxBrands < Len(BrandNames) THEN MaxBrands ELSE Len(BrandNames))}

TopFiles ==
    CommonFiles \cup
    {CsvFile(Columns,
             AsSeq([i \in 1..Len(ms) |-> [BaseListing EXCEPT !["manufacturer"] = Val(ms[i])]])) :
        ms \in BrandColumns}

\* listings whose manufacturer and position vary
HeatListings ==
    {[BaseListing EXCEPT !["manufacturer"] = Val(m), !["lat"] = Val(la), !["long"] = Val(lo)] :
        m \in {"ford", "kia"}, la \in {10, 31}, lo \in {-100, 20}}

HeatFiles ==
    CommonFiles \cup {CsvFile(Columns, ls) : ls \in Seqs(HeatListings, MaxHeatRows)}

-----------------------------------------------------------------------------
(* Specifications *)

\* the process has started, the script has not run yet
InitWith(files) ==
    /\ file \in files
    /\ cache = [filled |-> FALSE,
                value |-> [df |-> EmptyDataFrame, error |-> FALSE, raised |-> FALSE]]
    /\ reads = 0
    /\ started = FALSE
    /\ page = Pages[1]
    /\ selected_brand = NaN
    /\ search_query = <<>>
    /\ df = EmptyDataFrame
    /\ errorShown = FALSE
    /\ out = NoOutput

Init == InitWith(LoadFiles)

InitMode == InitWith(ModeFiles)

InitYear == InitWith(YearFiles)

InitSearch == InitWith(SearchFiles)

InitTop == InitWith(TopFiles)

InitHeat == InitWith(HeatFiles)

\* navigation and manufacturer selection
Navigate ==
    \/ FirstRun
    \/ \E i \in 1..Len(Pages) : SelectPage(Pages[i])
    \/ SelectBrand

Next ==
    \/ FirstRun
    \/ \E i \in 1..Len(Pages) : SelectPage(Pages[i])
    \/ SelectBrand
    \/ \E text \in SearchTexts : Search(text)

Spec == Init /\ [][Next]_vars

SpecMode == InitMode /\ [][Navigate]_vars

SpecYear == InitYear /\ [][Navigate]_vars

SpecSearch == InitSearch /\ [][Next]_vars

SpecTop == InitTop /\ [][Navigate]_vars

SpecHeat == InitHeat /\ [][Navigate]_vars

-----------------------------------------------------------------------------
(* Vocabulary of the properties *)

NineColumns ==
    {"manufacturer", "model", "year", "price", "lat", "long", "cylinders",
     "fuel", "drive"}

\* the listing has a value in each of the nine columns
Complete(r) == \A c \in NineColumns : c \in DOMAIN r /\ r[c] # <<>>

AllComplete(rows) == \A i \in 1..Len(rows) : Complete(rows[i])

\* the file cannot be loaded: unreadable, or short of a required column
FileFails == ~file.readable \/ ~(NineColumns \subseteq file.cols)

\* the columns each view needs
ViewColumns(p) ==
    CASE p = "Home" -> {"manufacturer", "model"}
      [] p = "Models by Company" ->
            {"manufacturer", "model", "price", "drive", "type", "transmission",
             "year", "fuel", "cylinders"}
      [] p = "Most Listed Vehicle Brands" -> {"manufacturer"}
      [] p = "Transmission vs Type" -> {"transmission", "type"}
      [] p = "Manufacturer vs Drive" -> {"manufacturer", "drive"}
      [] p = "Brand-Specific Heatmap" -> {"manufacturer", "lat", "long"}

\* the listings of the Dataset of the selected manufacturer
OfSelectedBrand ==
    SelectSeq(df.rows, LAMBDA r : selected_brand # <<>> /\ r["manufacturer"] = selected_brand)

\* the non-null values of column c in the listings, in row order
Present(rows, c) ==
    LET cells == SelectSeq([i \in 1..Len(rows) |-> rows[i][c]], LAMBDA x : x # <<>>)
    IN  AsSeq([i \in 1..Len(cells) |-> cells[i][1]])

Occurrences(vals, v) == Cardinality({i \in 1..Len(vals) : vals[i] = v})

\* the values of highest frequency
MostFrequent(vals) ==
    {v \in Range(vals) : \A w \in Range(vals) : Occurrences(vals, w) <= Occurrences(vals, v)}

FirstIndex(vals, v) == CHOOSE i \in 1..Len(vals) : vals[i] = v /\ \A j \in 1..(i - 1) : vals[j] # v

\* the listings behind the summary of model name n
GroupOf(n) == SelectSeq(out.rows, LAMBDA r : r["model"] = <<n>>)

ModelsRendered == started /\ page = "Models by Company" /\ out.kind = "page"

ModalFields == {"drive", "type", "transmission", "fuel", "cylinders"}

-----------------------------------------------------------------------------
(* C1 *)

\* C1: with the zero-row, zero-column Dataset of a failed load every page
\* renders (a page or a warning), never a fault, and Home shows the three
\* metrics as zero.
C1_EmptyDatasetRenders ==
    (started /\ df = [cols |-> {}, rows |-> <<>>]) =>
        /\ out.kind \in {"page", "warning"}
        /\ page = "Home" =>
              /\ out.kind = "page"
              /\ out.data = [total |-> 0, brands |-> 0, models |-> 0]

-----------------------------------------------------------------------------
(* C2 *)

\* C2: load_data never raises; a file that is unreadable or lacks one of
\* the nine required columns gives an error message and a Dataset with zero
\* rows, any other file gives its rows minus those with a null in the nine
\* columns.
C2_LoadDataNeverRaises ==
    started =>
        /\ out.msg # "load_data raised"
        /\ cache.filled
        /\ IF FileFails
           THEN errorShown /\ df.rows = <<>>
           ELSE /\ ~errorShown
                /\ df.cols = file.cols
                /\ df.rows = SelectSeq(file.rows, Complete)

C2_Witness ==
    /\ started
    /\ file.readable
    /\ "price" \notin file.cols
    /\ file.rows # <<>>
    /\ errorShown
    /\ df.rows = <<>>

-----------------------------------------------------------------------------
(* C3 *)

\* C3: on a non-empty Dataset without the columns a view needs, the view is
\* skipped with a warning on every one of the six pages.
C3_MissingColumnsWarn ==
    (started /\ df.rows # <<>> /\ ~(ViewColumns(page) \subseteq df.cols)) =>
        out.kind = "warning"

-----------------------------------------------------------------------------
(* C4 *)

\* C4 as claimed: the modal value of each of the five fields is a value of
\* highest frequency in the group, the first of them in the group's row
\* order when several tie, and 'N/A' exactly when the group has no non-null
\* value of the field.
C4_ModeFirstInRowOrder ==
    ModelsRendered =>
        \A i \in 1..Len(out.data) : \A f \in ModalFields :
            LET vals == Present(GroupOf(out.data[i].model), f)
                got == out.data[i][f]
            IN  IF vals = <<>> THEN got = "N/A"
                ELSE /\ got \in MostFrequent(vals)
                     /\ \A w \in MostFrequent(vals) :
                            FirstIndex(vals, got) <= FirstIndex(vals, w)

\* C4 amended: the modal value of each of the five fields is a value of
\* highest frequency in the group, the smallest of them in sort order when
\* several tie, and 'N/A' exactly when the group has no non-null value of
\* the field.
C4_ModeSmallestInSortOrder ==
    ModelsRendered =>
        \A i \in 1..Len(out.data) : \A f \in ModalFields :
            LET vals == Present(GroupOf(out.data[i].model), f)
                got == out.data[i][f]
            IN  IF vals = <<>> THEN got = "N/A"
                ELSE /\ got \in MostFrequent(vals)
                     /\ \A w \in MostFrequent(vals) : StrRank(got) <= StrRank(w)

\* a summary whose drive values tie with the larger one first, beside a
\* summary with no type at all
C4_Witness ==
    /\ ModelsRendered
    /\ \E i \in 1..Len(out.data) :
          LET vals == Present(GroupOf(out.data[i].model), "drive")
          IN  /\ Cardinality(MostFrequent(vals)) = 2
              /\ vals[1] = "rwd"
              /\ out.data[i].drive = "fwd"
    /\ \E i \in 1..Len(out.data) : out.data[i].type = "N/A"

-----------------------------------------------------------------------------
(* C5 *)

\* the manufacturers of the Dataset, one per listing
Makers == Present(df.rows, "manufacturer")

TopRendered == started /\ page = "Most Listed Vehicle Brands" /\ out.kind = "page"

\* min(10, distinct manufacturers) entries, each with its manufacturer's
\* number of listings, no manufacturer twice, counts descending, nothing
\* left out that has more listings than an entry
TopTenByCount ==
    LET top == out.data
        k == Cardinality(Range(Makers))
    IN  /\ Len(top) = IF k < 10 THEN k ELSE 10
        /\ \A i \in 1..Len(top) :
              /\ top[i].name \in Range(Makers)
              /\ top[i].count = Occurrences(Makers, top[i].name)
        /\ \A i, j \in 1..Len(top) : i < j =>
              /\ top[i].name # top[j].name
              /\ top[i].count >= top[j].count
        /\ \A m \in Range(Makers) :
              (\A i \in 1..Len(top) : top[i].name # m) =>
                  \A i \in 1..Len(top) : Occurrences(Makers, m) <= top[i].count

\* C5 as claimed: the top ten by count, manufacturers of equal count in
\* order of first appearance in the Dataset.
C5_TiesInFirstSeenOrder ==
    TopRendered =>
        /\ TopTenByCount
        /\ \A i, j \in 1..Len(out.data) :
              (i < j /\ out.data[i].count = out.data[j].count) =>
                  FirstIndex(Makers, out.data[i].name) < FirstIndex(Makers, out.data[j].name)

\* C5 amended: the query returns min(10, distinct manufacturers) entries,
\* each count the manufacturer's number of listings, ordered by descending
\* count, no manufacturer left out having a larger count than one included;
\* the order among manufacturers of equal count is not fixed.
C5_TopTenDescending == TopRendered => TopTenByCount

\* eleven manufacturers, ten shown, counts not all equal
C5_Witness ==
    /\ TopRendered
    /\ Cardinality(Range(Makers)) = 11
    /\ Len(out.data) = 10
    /\ out.data[1].count > out.data[10].count

-----------------------------------------------------------------------------
(* C6 *)

\* s contains t as a literal substring
Contains(s, t) ==
    \E off \in 0..(Len(s) - Len(t)) : \A i \in 1..Len(t) : s[off + i] = t[i]

\* lower case, letter by letter
Lowered(s) ==
    AsSeq([i \in 1..Len(s) |-> IF s[i] = "A" THEN "a" ELSE IF s[i] = "B" THEN "b" ELSE s[i]])

\* C6: with a non-empty search string the rows kept are exactly the
\* selected manufacturer's rows whose model name contains the string as a
\* literal substring, case-insensitively, and the search never raises.
C6_LiteralSearch ==
    (started /\ page = "Models by Company" /\ search_query # <<>>) =>
        LET want == SelectSeq(OfSelectedBrand,
                        LAMBDA r : Contains(Lowered(r["model"][1]), Lowered(search_query)))
        IN  /\ out.kind # "fault"
            /\ IF want = <<>> THEN out.kind = "warning"
               ELSE out.kind = "page" /\ out.rows = want

-----------------------------------------------------------------------------
(* C7 *)

\* the k-th smallest of vals
Kth(vals, k) ==
    CHOOSE v \in Range(vals) :
        /\ Cardinality({i \in 1..Len(vals) : vals[i] < v}) < k
        /\ k <= Cardinality({i \in 1..Len(vals) : vals[i] <= v})

\* twice the median: the middle value doubled, or the sum of the two middle
\* values
TwiceMedian(vals) ==
    Kth(vals, (Len(vals) + 1) \div 2) + Kth(vals, (Len(vals) + 2) \div 2)

\* the mean of the group's prices, as a ratio
PriceIsMean(i) ==
    LET prices == Present(GroupOf(out.data[i].model), "price")
    IN  out.data[i].price.num * Len(prices) = Sum(prices) * out.data[i].price.den

\* C7 as claimed: the year is the median rounded to the nearest integer
\* (a halfway median going up, or to the even year) and the price is the
\* mean.
C7_YearRoundedToNearest ==
    ModelsRendered =>
        \A i \in 1..Len(out.data) :
            LET m2 == TwiceMedian(Present(GroupOf(out.data[i].model), "year"))
                up == (m2 + 1) \div 2
                even == IF m2 % 2 = 0 THEN m2 \div 2
                        ELSE IF ((m2 - 1) \div 2) % 2 = 0 THEN (m2 - 1) \div 2
                        ELSE (m2 + 1) \div 2
            IN  /\ ~out.data[i].year.na
                /\ out.data[i].year.v = up \/ out.data[i].year.v = even
                /\ PriceIsMean(i)

\* C7 amended: the year is the median of the group's years with its
\* fraction dropped, so that a median halfway between two years gives the
\* earlier one, and the price is the mean of the group's prices.
C7_YearTruncated ==
    ModelsRendered =>
        \A i \in 1..Len(out.data) :
            LET m2 == TwiceMedian(Present(GroupOf(out.data[i].model), "year"))
            IN  /\ ~out.data[i].year.na
                /\ out.data[i].year.v = m2 \div 2
                /\ PriceIsMean(i)

\* a group of even size whose median falls between two years, and whose
\* mean price is not a whole number
C7_Witness ==
    /\ ModelsRendered
    /\ \E i \in 1..Len(out.data) :
          LET years == Present(GroupOf(out.data[i].model), "year")
          IN  /\ Len(years) % 2 = 0
              /\ TwiceMedian(years) % 2 = 1
              /\ out.data[i].price.den # 1

-----------------------------------------------------------------------------
(* C8 *)

\* C8: every listing of the Dataset, and every listing a page computes
\* from, has the nine values, and once loaded the Dataset never changes.
C8_ListingsComplete ==
    [][/\ AllComplete(df'.rows)
       /\ AllComplete(out'.rows)
       /\ started => df' = df]_vars

\* listings were dropped at load, and a manufacturer and a search have been
\* chosen since
C8_Witness ==
    /\ ModelsRendered
    /\ df.rows # <<>>
    /\ Len(df.rows) < Len(file.rows)
    /\ selected_brand = <<"kia">>
    /\ search_query # <<>>

-----------------------------------------------------------------------------
(* C9 *)

\* C9: the file is read at most once: the first run computes the Dataset,
\* every later run takes it from the cache without a read.
C9_ReadAtMostOnce ==
    [][/\ reads' <= 1
       /\ cache'.filled /\ df' = cache'.value.df
       /\ started => (reads' = reads /\ cache' = cache)]_vars

\* a later render after a failed load
C9_Witness ==
    /\ started
    /\ ~file.readable
    /\ page = "Brand-Specific Heatmap"
    /\ reads = 1
    /\ df = [cols |-> {}, rows |-> <<>>]

-----------------------------------------------------------------------------
(* C10 *)

\* C10: the heatmap page shows a no-data warning when the selected
\* manufacturer has no rows; otherwise its centre is (mean latitude, mean
\* longitude) of those rows and its heat points are their (lat, long)
\* pairs, one per row, in row order.
C10_HeatmapCentreAndPoints ==
    (started /\ page = "Brand-Specific Heatmap") =>
        LET rows == OfSelectedBrand
            lats == Present(rows, "lat")
            longs == Present(rows, "long")
        IN  IF df.rows = <<>> \/ rows = <<>> THEN out.kind = "warning"
            ELSE /\ out.kind = "page"
                 /\ out.data.center[1].num * Len(rows) = Sum(lats) * out.data.center[1].den
                 /\ out.data.center[2].num * Len(rows) = Sum(longs) * out.data.center[2].den
                 /\ out.data.heat_data = AsSeq([i \in 1..Len(rows) |-> <<lats[i], longs[i]>>])

\* two listings of the selected manufacturer at different places, next to
\* a listing of another manufacturer
C10_Witness ==
    /\ started
    /\ page = "Brand-Specific Heatmap"
    /\ out.kind = "page"
    /\ Len(out.data.heat_data) >= 2
    /\ out.data.heat_data[1] # out.data.heat_data[2]
    /\ Len(df.rows) > Len(out.data.heat_data)

=============================================================================
